---- MODULE Spec2Model ----
(***************************************************************************)
(* Model of crime_cali.py: the module-level load of the incident table     *)
(* (df, cities) and the Dash callback update(city), which filters the      *)
(* table by city and derives the nine outputs of the dashboard.            *)
(*                                                                         *)
(* Data frames are sequences of rows.  The pandas calls of the callback    *)
(* are operators that compute what the calls compute: value_counts,        *)
(* groupby(..).size(), sort_values, Categorical, boolean-mask selection.   *)
(* The callback runs per request; requests of several callers interleave   *)
(* between the read of the global frame (line 84) and the rest.            *)
(***************************************************************************)
EXTENDS Integers, Sequences, FiniteSets, TLC

VARIABLES
    df,       \* the global frame loaded at import time (line 8)
    cities,   \* the dropdown's option list (lines 9-10)
    pc,       \* per caller: "idle", "filtered" (line 84 done), "done" (returned)
    arg,      \* per caller: the city argument of the running / last request
    dff,      \* per caller: the callback's local filtered copy
    ret,      \* per caller: the tuple returned by update, as a record
    tieOrder  \* how the installed sort orders rows of equal key

vars == <<df, cities, pc, arg, dff, ret, tieOrder>>

-----------------------------------------------------------------------------
(* Bounds of the model *)

MaxRows == 3
NumCallers == 2

Callers == 1..NumCallers

-----------------------------------------------------------------------------
(* Values *)

\* A missing cell.  read_csv turns empty cells and the texts "NaN", "N/A", ...
\* into NaN, so no label of the table can equal it.
NaN == "NaN"

AllCalifornia == "All California"

\* The text of the headline card when there is no crime type to show.
NA == "N/A"

None == "None"

month_order == <<"Jan", "Feb", "Mar", "Apr", "May", "Jun",
                 "Jul", "Aug", "Sep", "Oct", "Nov", "Dec">>

\* The strings the model sorts, in Python's string order (code points).
StrOrder == <<"All California", "Apr", "Aug", "Dec", "Feb", "Firearm", "Fresno",
              "Jan", "Jul", "Jun", "Knife", "Mar", "May", "Nonexistent", "Nov",
              "Oakland", "Oct", "Sep">>

StrRank == [s \in {StrOrder[i] : i \in 1..Len(StrOrder)} |->
               CHOOSE i \in 1..Len(StrOrder) : StrOrder[i] = s]

HourRank == [h \in 0..23 |-> h]

Columns == {"city", "case_closed", "race_ethnicity", "gender", "date_time",
            "weapon", "crime_type", "latitude", "longitude"}

\* One row of the CSV file.
Row(city, cc, race, gen, mon, hr, wpn, ct) ==
    [city |-> city, case_closed |-> cc, race_ethnicity |-> race, gender |-> gen,
     date_time |-> [month |-> mon, hour |-> hr], weapon |-> wpn,
     crime_type |-> ct, latitude |-> "36.7", longitude |-> "-119.4"]

\* The city arguments a request can carry: the sentinel, a city of the tables
\* and a value that is in no table of the model.
CityArgs == {AllCalifornia, "Fresno", "Nonexistent"}

\* sort_values is called with its default kind, "quicksort", which pandas
\* documents as not stable: the order it leaves among rows of equal key is
\* fixed for an installation and not by the code.  Two such orders: the rows
\* as they came, or mirrored.
TieOrders == {"kept", "mirrored"}

-----------------------------------------------------------------------------
(* Sequences *)

Reverse(s) == [i \in 1..Len(s) |-> s[Len(s) + 1 - i]]

Take(s, idx) == [i \in 1..Len(idx) |-> s[idx[i]]]

Col(d, f) == [i \in 1..Len(d) |-> d[i][f]]

Count(col, x) == Cardinality({i \in 1..Len(col) : col[i] = x})

\* A dropna that keeps the missing cells (dropna=False).
DropNaKeep(col) == col

\* Series.dropna
DropNa(col) == SelectSeq(col, LAMBDA x : x # NaN)

\* Series.notna().any()
NotNaAny(col) == \E i \in 1..Len(col) : col[i] # NaN

\* Series.unique / the hash table of value_counts: first appearance order.
RECURSIVE Unique(_)
Unique(col) ==
    IF col = <<>> THEN <<>>
    ELSE LET h == Unique(SubSeq(col, 1, Len(col) - 1))
             x == col[Len(col)]
         IN IF \E i \in 1..Len(h) : h[i] = x THEN h ELSE Append(h, x)

\* argsort of integer keys by insertion: index k goes after every index
\* already placed whose key is smaller, and after or before those of equal
\* key as the installed sort orders ties.
InsertIdx(s, k, key) ==
    LET p == IF tieOrder = "kept"
             THEN Cardinality({j \in 1..Len(s) : key[s[j]] <= key[k]})
             ELSE Cardinality({j \in 1..Len(s) : key[s[j]] < key[k]})
    IN SubSeq(s, 1, p) \o <<k>> \o SubSeq(s, p + 1, Len(s))

RECURSIVE ArgsortUpTo(_, _)
ArgsortUpTo(key, n) ==
    IF n = 0 THEN <<>> ELSE InsertIdx(ArgsortUpTo(key, n - 1), n, key)

Argsort(key) == ArgsortUpTo(key, Len(key))

\* A sort that ignores the direction asked for.
SortValuesAscendingOnly(rows, key, ascending) == Take(rows, Argsort(key))

\* sort_values: rows ordered by an integer key.  Descending order is pandas'
\* nargsort: reverse the keys, argsort, map back, reverse the indexer.
SortValues(rows, key, ascending) ==
    IF ascending THEN Take(rows, Argsort(key))
    ELSE LET n == Len(key)
             ix == Argsort(Reverse(key))
             orig == [i \in 1..n |-> n + 1 - ix[i]]
         IN Take(rows, Reverse(orig))

-----------------------------------------------------------------------------
(* pandas aggregations used by update *)

\* Series.value_counts(): missing cells dropped, one row <<label, count>> per
\* distinct label in first-appearance order, then sort_values by count,
\* descending.
ValueCounts(col) ==
    LET v == DropNa(col)
        keys == Unique(v)
        rows == [i \in 1..Len(keys) |-> <<keys[i], Count(v, keys[i])>>]
    IN SortValues(rows, [i \in 1..Len(rows) |-> rows[i][2]], FALSE)

\* groupby(key).size().reset_index(): rows whose key is missing are dropped,
\* one row <<key, size>> per distinct key, sorted by key (rank gives the
\* order of the keys and is defined on the non-missing keys only).
GroupBySize(col, rank) ==
    LET v == SelectSeq(col, LAMBDA x : x \in DOMAIN rank)
        keys == Unique(v)
        rows == [i \in 1..Len(keys) |-> <<keys[i], Count(v, keys[i])>>]
    IN SortValues(rows, [i \in 1..Len(rows) |-> rank[rows[i][1]]], TRUE)

\* dt.strftime("%b") in the C locale.
StrfB(date_time) == month_order[date_time.month]

\* pd.Categorical(values, categories, ordered=True): the code of a value is its
\* position among the categories; a value outside them becomes missing, and
\* sort_values puts missing values last.
CatCode(x, categories) ==
    IF \E i \in 1..Len(categories) : categories[i] = x
    THEN CHOOSE i \in 1..Len(categories) : categories[i] = x
    ELSE Len(categories) + 1

Categorical(x, categories) ==
    IF \E i \in 1..Len(categories) : categories[i] = x THEN x ELSE NaN

\* astype(str) on a column read from text cells: str(x) of a text is the text.
AsTypeStr(col) == [i \in 1..Len(col) |-> col[i]]

SeqMax(s) == CHOOSE m \in {s[i] : i \in 1..Len(s)} : \A i \in 1..Len(s) : s[i] <= m

\* An idxmax that keeps the last row holding the maximum.
IdxMaxLast(vc) ==
    LET mx == SeqMax(Col(vc, 2))
        last == CHOOSE i \in 1..Len(vc) :
                    /\ vc[i][2] = mx
                    /\ \A j \in (i + 1)..Len(vc) : vc[j][2] # mx
    IN vc[last][1]

\* Series.idxmax(): the label of the first row that holds the maximum.
IdxMax(vc) ==
    LET mx == SeqMax(Col(vc, 2))
        first == CHOOSE i \in 1..Len(vc) :
                     /\ vc[i][2] = mx
                     /\ \A j \in 1..(i - 1) : vc[j][2] # mx
    IN vc[first][1]

-----------------------------------------------------------------------------
(* Text formatting *)

Digit(d) == <<"0", "1", "2", "3", "4", "5", "6", "7", "8", "9">>[d + 1]

RECURSIVE Dec(_)
Dec(n) == IF n < 10 THEN <<Digit(n)>> ELSE Dec(n \div 10) \o <<Digit(n % 10)>>

Pad3(n) == <<Digit(n \div 100), Digit((n \div 10) % 10), Digit(n % 10)>>

\* f"{n:,}": the decimal digits of n, a comma between groups of three.
RECURSIVE FormatGrouped(_)
FormatGrouped(n) ==
    IF n < 1000 THEN Dec(n)
    ELSE FormatGrouped(n \div 1000) \o <<",">> \o Pad3(n % 1000)

-----------------------------------------------------------------------------
(* Module level: lines 8-10 *)

\* Python's sorted() on a list of strings (a stable sort).
RECURSIVE Sorted(_)
Sorted(s) ==
    IF s = <<>> THEN <<>>
    ELSE LET r == Sorted(SubSeq(s, 1, Len(s) - 1))
             x == s[Len(s)]
             p == Cardinality({j \in 1..Len(r) : StrRank[r[j]] <= StrRank[x]})
         IN SubSeq(r, 1, p) \o <<x>> \o SubSeq(r, p + 1, Len(r))

\* sorted(df["city"].unique()), then insert(0, "All California")
Cities(d) == <<AllCalifornia>> \o Sorted(Unique(Col(d, "city")))

-----------------------------------------------------------------------------
(* update(city): lines 83-137 *)

\* A filter that applies the mask to every argument, the sentinel included.
SelectMaskOnly(d, city) == SelectSeq(d, LAMBDA r : r.city = city)

\* A filter that hands the matching rows back in reverse order.
SelectReversed(d, city) ==
    IF city = AllCalifornia THEN d
    ELSE Reverse(SelectSeq(d, LAMBDA r : r.city = city))

\* line 84: the whole frame for "All California", else the rows under the
\* boolean mask df.city == city, in the frame's order.
Select(d, city) ==
    IF city = AllCalifornia THEN d
    ELSE SelectSeq(d, LAMBDA r : r.city = city)

\* A handler that leaves its filtered frame in the global name.
GlobalRebound(d, sub) == sub

\* line 84: both branches end in .copy(), so the global frame is as it was
\* after the local frame sub has been taken from it.
GlobalAfterCopy(d, sub) == d

\* lines 86-87, 91-92, 96-97
CaseDf(d) == ValueCounts(Col(d, "case_closed"))
RaceDf(d) == ValueCounts(Col(d, "race_ethnicity"))
GenderDf(d) == ValueCounts(Col(d, "gender"))

\* line 101
HourlyDf(d) == GroupBySize([i \in 1..Len(d) |-> d[i].date_time.hour], HourRank)

\* lines 104-105: weapon_df.sort_values("usage_count")
WeaponDf(d) == GroupBySize(Col(d, "weapon"), StrRank)

\* The weapon table left in groupby's key order.
WeaponUnsorted(d) == WeaponDf(d)

WeaponSorted(d) ==
    LET w == WeaponDf(d)
    IN SortValues(w, [i \in 1..Len(w) |-> w[i][2]], TRUE)

\* lines 108-112: month_df.sort_values("month") on the categorical column
MonthDf(d) == GroupBySize([i \in 1..Len(d) |-> StrfB(d[i].date_time)], StrRank)

\* The month table left in groupby's key order (alphabetical).
MonthUnsorted(d) == MonthDf(d)

MonthSorted(d) ==
    LET m == MonthDf(d)
        c == [i \in 1..Len(m) |-> <<Categorical(m[i][1], month_order), m[i][2]>>]
    IN SortValues(c, [i \in 1..Len(m) |-> CatCode(m[i][1], month_order)], TRUE)

\* lines 116-126: the frame handed to scatter_map with the columns it shows.
MapPoints(d) ==
    [i \in 1..Len(d) |->
        [city |-> d[i].city, crime_type |-> d[i].crime_type, weapon |-> d[i].weapon,
         gender |-> d[i].gender, case_closed |-> d[i].case_closed,
         latitude |-> d[i].latitude, longitude |-> d[i].longitude]]

\* A total taken from the global frame instead of the filtered one.
TotalOfGlobal(d) == FormatGrouped(Len(df))

\* line 130
Total(d) == FormatGrouped(Len(d))

\* line 132
CrimeVc(d) == ValueCounts(AsTypeStr(DropNa(Col(d, "crime_type"))))

\* lines 131-135: <<label, count>> stands for f"{label} ({count} crimes)".
Freq(d) ==
    IF d # <<>> /\ "crime_type" \in Columns /\ NotNaAny(Col(d, "crime_type"))
    THEN <<IdxMax(CrimeVc(d)), SeqMax(Col(CrimeVc(d), 2))>>
    ELSE <<NA>>

\* line 137
Outputs(d) ==
    [fig_case |-> CaseDf(d), fig_race |-> RaceDf(d), fig_gender |-> GenderDf(d),
     fig_hour |-> HourlyDf(d), fig_weap |-> WeaponSorted(d),
     fig_month |-> MonthSorted(d), fig_map |-> MapPoints(d),
     total |-> Total(d), freq |-> Freq(d)]

\* The value of ret while a caller has no returned tuple.
NoReturn ==
    [fig_case |-> <<>>, fig_race |-> <<>>, fig_gender |-> <<>>, fig_hour |-> <<>>,
     fig_weap |-> <<>>, fig_month |-> <<>>, fig_map |-> <<>>,
     total |-> <<>>, freq |-> <<>>]

-----------------------------------------------------------------------------
(* Actions *)

\* A caller's request reaches update and line 84 runs.
UpdateFilter(c, city) ==
    /\ pc[c] \in {"idle", "done"}
    /\ dff' = [dff EXCEPT ![c] = Select(df, city)]
    /\ df' = GlobalAfterCopy(df, Select(df, city))
    /\ arg' = [arg EXCEPT ![c] = city]
    /\ pc' = [pc EXCEPT ![c] = "filtered"]
    /\ ret' = [ret EXCEPT ![c] = NoReturn]
    /\ UNCHANGED <<cities, tieOrder>>

\* Lines 86-137 run on the caller's local frame and the tuple is returned.
UpdateReturn(c) ==
    /\ pc[c] = "filtered"
    /\ ret' = [ret EXCEPT ![c] = Outputs(dff[c])]
    /\ pc' = [pc EXCEPT ![c] = "done"]
    /\ UNCHANGED <<df, cities, arg, dff, tieOrder>>

Next ==
    \/ \E c \in Callers, city \in CityArgs : UpdateFilter(c, city)
    \/ \E c \in Callers : UpdateReturn(c)

-----------------------------------------------------------------------------
(* Initial states: the table read at import time, drawn from tables of at    *)
(* most MaxRows rows over a set of rows.                                      *)

Tables(rows) == UNION {[1..n -> rows] : n \in 0..MaxRows}

InitOver(rows) ==
    /\ df \in Tables(rows)
    /\ cities = Cities(df)
    /\ pc = [c \in Callers |-> "idle"]
    /\ arg = [c \in Callers |-> None]
    /\ dff = [c \in Callers |-> <<>>]
    /\ ret = [c \in Callers |-> NoReturn]
    /\ tieOrder \in TieOrders

\* Rows that differ in city and crime type.
FilterRows ==
    {Row(city, "Yes", "Asian", "Female", 1, 0, "Knife", ct) :
        city \in {"Fresno", "Oakland"}, ct \in {"Theft", NaN}}

\* Rows that differ in the three categorical columns, each with two labels and
\* a missing cell.
CatRows ==
    {Row("Fresno", "Yes", "White", NaN, 1, 0, "Knife", "Theft"),
     Row("Fresno", "No", NaN, "Male", 1, 0, "Knife", "Theft"),
     Row("Fresno", NaN, "Asian", "Female", 1, 0, "Knife", "Theft"),
     Row("Oakland", "No", "Asian", "Male", 1, 0, "Knife", "Theft")}

\* Rows that differ in crime type.
CrimeRows ==
    {Row("Fresno", "Yes", "Asian", "Female", 1, 0, "Knife", "Theft"),
     Row("Fresno", "Yes", "Asian", "Female", 1, 0, "Knife", "Assault"),
     Row("Fresno", "Yes", "Asian", "Female", 1, 0, "Knife", NaN),
     Row("Oakland", "Yes", "Asian", "Female", 1, 0, "Knife", NaN)}

\* Rows that differ in weapon.
WeaponRows ==
    {Row("Fresno", "Yes", "Asian", "Female", 1, 0, "Knife", "Theft"),
     Row("Fresno", "Yes", "Asian", "Female", 1, 0, "Firearm", "Theft"),
     Row("Fresno", "Yes", "Asian", "Female", 1, 0, NaN, "Theft"),
     Row("Oakland", "Yes", "Asian", "Female", 1, 0, "Firearm", "Theft")}

\* Rows that differ in the month and hour of date_time.
TimeRows ==
    {Row("Fresno", "Yes", "Asian", "Female", 1, 23, "Knife", "Theft"),
     Row("Fresno", "Yes", "Asian", "Female", 4, 0, "Knife", "Theft"),
     Row("Fresno", "Yes", "Asian", "Female", 2, 13, "Knife", "Theft"),
     Row("Oakland", "Yes", "Asian", "Female", 12, 0, "Knife", "Theft")}

Init == InitOver(FilterRows)
InitCat == InitOver(CatRows)
InitCrime == InitOver(CrimeRows)
InitWeapon == InitOver(WeaponRows)
InitTime == InitOver(TimeRows)

Spec == Init /\ [][Next]_vars
SpecCat == InitCat /\ [][Next]_vars
SpecCrime == InitCrime /\ [][Next]_vars
SpecWeapon == InitWeapon /\ [][Next]_vars
SpecTime == InitTime /\ [][Next]_vars

-----------------------------------------------------------------------------
(* Vocabulary of the properties *)

\* The number a grouped decimal text stands for.
DigitVal(ch) == CHOOSE v \in 0..9 : Digit(v) = ch

RECURSIVE ParseGrouped(_)
ParseGrouped(t) ==
    IF t = <<>> THEN 0
    ELSE LET front == SubSeq(t, 1, Len(t) - 1)
             ch == t[Len(t)]
         IN IF ch = "," THEN ParseGrouped(front)
            ELSE 10 * ParseGrouped(front) + DigitVal(ch)

RECURSIVE SumCounts(_)
SumCounts(rows) ==
    IF rows = <<>> THEN 0
    ELSE SumCounts(SubSeq(rows, 1, Len(rows) - 1)) + rows[Len(rows)][2]

JurisdictionSet == {cities[i] : i \in 1..Len(cities)}

\* Positions of the global frame's rows of city J.
Matching(J) == {i \in 1..Len(df) : df[i].city = J}

Returned(c) == pc[c] = "done"

\* Position of the first row of frame d whose column f holds x.
FirstAt(d, f, x) ==
    CHOOSE i \in 1..Len(d) : d[i][f] = x /\ \A j \in 1..(i - 1) : d[j][f] # x

Nulls(d, f) == Cardinality({i \in 1..Len(d) : d[i][f] = NaN})

Labels(rows) == {rows[i][1] : i \in 1..Len(rows)}

-----------------------------------------------------------------------------
(* Properties *)

\* C1: for a request whose city is in the jurisdiction list, the returned
\* total is the number of rows of the table that the filter selects (all rows
\* for the sentinel, the rows of that city otherwise), which is also the
\* number of rows of the frame every aggregation of the request works on.
C1_TotalIsFilteredCount ==
    \A c \in Callers :
        (Returned(c) /\ arg[c] \in JurisdictionSet) =>
            /\ ParseGrouped(ret[c].total) =
                   (IF arg[c] = AllCalifornia THEN Len(df)
                    ELSE Cardinality(Matching(arg[c])))
            /\ ParseGrouped(ret[c].total) = Len(dff[c])
            /\ Len(ret[c].fig_map) = Len(dff[c])

C1_Witness ==
    \E c \in Callers :
        /\ Returned(c)
        /\ arg[c] \in JurisdictionSet \ {AllCalifornia}
        /\ Len(dff[c]) = 2
        /\ Len(df) = 3

\* C2: a request whose city is neither the sentinel nor in the jurisdiction
\* list never ends with a returned tuple.
C2_UnknownCityReturnsNothing ==
    \A c \in Callers : Returned(c) => arg[c] \in JurisdictionSet

\* C3: the sentinel is the first entry of the jurisdiction list, and a request
\* with it works on every row of the table, in order, and returns the length
\* of the table as total.
C3_SentinelSelectsAll ==
    /\ cities[1] = AllCalifornia
    /\ \A c \in Callers :
           (pc[c] \in {"filtered", "done"} /\ arg[c] = AllCalifornia) => dff[c] = df
    /\ \A c \in Callers :
           (Returned(c) /\ arg[c] = AllCalifornia) =>
               ParseGrouped(ret[c].total) = Len(df)

C3_Witness ==
    \E c \in Callers :
        /\ Returned(c)
        /\ arg[c] = AllCalifornia
        /\ Len(df) = 3
        /\ \E i, j \in 1..Len(df) : df[i].city # df[j].city

\* C9: for a city other than the sentinel the filtered frame holds exactly the
\* table's rows of that city, each once, in the table's order.
C9_FilterExactInOrder ==
    \A c \in Callers :
        (pc[c] \in {"filtered", "done"} /\ arg[c] # AllCalifornia) =>
            \E f \in [1..Len(dff[c]) -> 1..Len(df)] :
                /\ \A i, j \in 1..Len(dff[c]) : i < j => f[i] < f[j]
                /\ {f[i] : i \in 1..Len(dff[c])} = Matching(arg[c])
                /\ \A i \in 1..Len(dff[c]) : dff[c][i] = df[f[i]]

C9_Witness ==
    \E c \in Callers :
        /\ pc[c] = "filtered"
        /\ arg[c] # AllCalifornia
        /\ Len(df) = 3
        /\ Len(dff[c]) = 2
        /\ dff[c][1] # dff[c][2]
        /\ df[2].city # arg[c]

-----------------------------------------------------------------------------
(* The categorical tables of a returned tuple, each with its column *)

CatFigures(c) ==
    {<<ret[c].fig_case, "case_closed">>,
     <<ret[c].fig_race, "race_ethnicity">>,
     <<ret[c].fig_gender, "gender">>}

\* C4: in each of the three categorical tables of a returned tuple the counts
\* add up, together with the number of filtered rows whose cell is missing,
\* to the returned total; the missing value is no label of the table.
C4_CountsPlusNullsIsTotal ==
    \A c \in Callers :
        Returned(c) =>
            \A t \in CatFigures(c) :
                /\ SumCounts(t[1]) + Nulls(dff[c], t[2]) = ParseGrouped(ret[c].total)
                /\ NaN \notin Labels(t[1])

C4_Witness ==
    \E c \in Callers :
        /\ Returned(c)
        /\ Len(dff[c]) = 3
        /\ \A t \in CatFigures(c) : Nulls(dff[c], t[2]) = 1 /\ Len(t[1]) = 2

\* C10, amended: each categorical table holds every label of its column in the
\* filtered frame once, with its number of rows, and no count is smaller than
\* the one after it.
C10_DescendingCounts ==
    \A c \in Callers :
        Returned(c) =>
            \A t \in CatFigures(c) :
                /\ \A i \in 1..(Len(t[1]) - 1) : t[1][i][2] >= t[1][i + 1][2]
                /\ \A i, j \in 1..Len(t[1]) : i # j => t[1][i][1] # t[1][j][1]
                /\ Labels(t[1]) = {dff[c][k][t[2]] : k \in 1..Len(dff[c])} \ {NaN}
                /\ \A i \in 1..Len(t[1]) :
                       t[1][i][2] = Cardinality({k \in 1..Len(dff[c]) :
                                                    dff[c][k][t[2]] = t[1][i][1]})

\* C10 as stated: each categorical table lists its labels by descending count,
\* and labels of equal count in the order of their first rows in the filtered
\* frame.
C10_DescendingFirstSeenTies ==
    \A c \in Callers :
        Returned(c) =>
            \A t \in CatFigures(c) :
                \A i \in 1..(Len(t[1]) - 1) :
                    \/ t[1][i][2] > t[1][i + 1][2]
                    \/ /\ t[1][i][2] = t[1][i + 1][2]
                       /\ FirstAt(dff[c], t[2], t[1][i][1])
                              < FirstAt(dff[c], t[2], t[1][i + 1][1])

C10_Witness ==
    \E c \in Callers :
        /\ Returned(c)
        /\ Len(ret[c].fig_case) = 2
        /\ ret[c].fig_case[1][2] > ret[c].fig_case[2][2]
        /\ Len(ret[c].fig_race) = 2
        /\ ret[c].fig_race[1][2] = ret[c].fig_race[2][2]

C7_WeaponsAscending ==
    \A c \in Callers :
        Returned(c) =>
            LET w == ret[c].fig_weap
                d == dff[c]
            IN /\ \A i \in 1..(Len(w) - 1) : w[i][2] <= w[i + 1][2]
               /\ \A i, j \in 1..Len(w) : i # j => w[i][1] # w[j][1]
               /\ Labels(w) = {d[i].weapon : i \in 1..Len(d)} \ {NaN}
               /\ \A i \in 1..Len(w) :
                      w[i][2] = Cardinality({k \in 1..Len(d) : d[k].weapon = w[i][1]})

C7_Witness ==
    \E c \in Callers :
        /\ Returned(c)
        /\ ret[c].fig_weap = <<<<"Knife", 1>>, <<"Firearm", 2>>>>

\* C8: the months of the month table of a returned tuple follow the calendar
\* (each is one of the twelve abbreviations, later in Jan..Dec than the one
\* before it), and each carries the number of filtered rows of that month.
C8_MonthsInCalendarOrder ==
    \A c \in Callers :
        Returned(c) =>
            LET m == ret[c].fig_month
                d == dff[c]
            IN \E f \in [1..Len(m) -> 1..12] :
                   /\ \A i, j \in 1..Len(m) : i < j => f[i] < f[j]
                   /\ \A i \in 1..Len(m) :
                          /\ m[i][1] = month_order[f[i]]
                          /\ m[i][2] = Cardinality({k \in 1..Len(d) :
                                                       d[k].date_time.month = f[i]})

C8_Witness ==
    \E c \in Callers :
        /\ Returned(c)
        /\ ret[c].fig_month = <<<<"Jan", 1>>, <<"Feb", 1>>, <<"Apr", 1>>>>

\* C5: no step of any request changes the loaded table or the jurisdiction
\* list, and two returned tuples for the same city argument are equal,
\* whatever requests ran before or between them.
C5_Deterministic ==
    \A a, b \in Callers :
        (Returned(a) /\ Returned(b) /\ arg[a] = arg[b]) => ret[a] = ret[b]

C5_PureAndIdempotent ==
    [][df' = df /\ cities' = cities]_vars /\ []C5_Deterministic

C5_Witness ==
    \E a, b \in Callers :
        /\ a # b
        /\ Returned(a) /\ Returned(b)
        /\ arg[a] = arg[b]
        /\ arg[a] \in JurisdictionSet \ {AllCalifornia}
        /\ Len(dff[a]) \in 1..(Len(df) - 1)
        /\ ret[a] = ret[b]

====
